---- MODULE Spec2Model ----
(***************************************************************************)
(* Model of print-guid-win (src/src/main.rs): a run checks the operating   *)
(* system, checks that the process token is elevated, opens a snapshot of  *)
(* the present devices and prints one block per enumerated device.         *)
(*                                                                         *)
(* Text written to a stream is a sequence of one-character strings; the    *)
(* fixed diagnostic lines and the operating system's own error messages    *)
(* are kept as one piece each.  A Rust String is a sequence of Unicode      *)
(* scalar values (integers); a byte buffer is a sequence of 0..255.        *)
(***************************************************************************)
EXTENDS Integers, Sequences, FiniteSets, TLC

\* ------------------------------------------------------------------ bounds

\* Largest number of devices a snapshot holds.
MaxDevices == 2

\* Capacity of the property buffer (vec![0; 256] in the source, scaled down).
BufLen == 4

\* ------------------------------------------------------ program constants

\* ERROR_NO_MORE_ITEMS, the low word of the HRESULT 0x80070103.
ERROR_NO_MORE_ITEMS == 259

\* High word 0x8007 of an HRESULT made from a Win32 error code.
HRESULT_WIN32_HIGH == 32775

\* Win32 error codes SetupDiEnumDeviceInfo and the other calls may also fail
\* with: ERROR_ACCESS_DENIED, ERROR_INVALID_DATA and 0x1030, whose digits
\* are those of the sentinel shifted by one place.
OtherErrorCodes == {5, 13, 4144}

\* Bytes the operating system may leave in a property buffer: NUL, 'A', a
\* two-byte lead (0xC3), a continuation byte (0xA9), a three-byte lead
\* (0xE2) and a byte that is valid nowhere (0xFF).
BufferBytes == {0, 65, 195, 169, 226, 255}

\* ------------------------------------------------------------------- text

DecDigits == <<"0", "1", "2", "3", "4", "5", "6", "7", "8", "9">>

LowerHexDigits ==
    <<"0", "1", "2", "3", "4", "5", "6", "7", "8", "9", "a", "b", "c", "d", "e", "f">>

UpperHexDigits ==
    <<"0", "1", "2", "3", "4", "5", "6", "7", "8", "9", "A", "B", "C", "D", "E", "F">>

\* "{}" of an unsigned integer.
RECURSIVE Dec(_)
Dec(n) ==
    IF n < 10 THEN <<DecDigits[n + 1]>>
    ELSE Dec(n \div 10) \o <<DecDigits[(n % 10) + 1]>>

RECURSIVE LowerHexBare(_)
LowerHexBare(n) ==
    IF n < 16 THEN <<LowerHexDigits[n + 1]>>
    ELSE LowerHexBare(n \div 16) \o <<LowerHexDigits[(n % 16) + 1]>>

\* "{:#x}" of an unsigned integer.
LowerHex(n) ==
    <<"0", "x">> \o LowerHexBare(n)

\* Four upper-case hexadecimal digits of a 16-bit word.
UpperHex4(w) ==
    << UpperHexDigits[((w \div 4096) % 16) + 1],
       UpperHexDigits[((w \div 256) % 16) + 1],
       UpperHexDigits[((w \div 16) % 16) + 1],
       UpperHexDigits[(w % 16) + 1] >>

\* str::contains.
Contains(hay, needle) ==
    \E i \in 0..(Len(hay) - Len(needle)) :
        SubSeq(hay, i + 1, i + Len(needle)) = needle

\* ------------------------------------------------------------ Option, Result

NoneOpt == [some |-> FALSE, val |-> <<>>]

Some(v) == [some |-> TRUE, val |-> v]

Ok(v) == [err |-> FALSE, val |-> v]

\* ---------------------------------------------------------------- WinDev

\* One-character text of a Unicode scalar value of a String under "{}".
CharOf(cp) ==
    CASE cp = 65 -> "A"
      [] cp = 0 -> "U+0000"
      [] cp = 233 -> "U+00E9"
      [] cp = 10857 -> "U+2A69"
      [] cp = 65533 -> "U+FFFD"
      [] OTHER -> "U+other"

CharsOf(s) == [i \in 1..Len(s) |-> CharOf(s[i])]

Separator ==
    <<"-", "-", "-", "-", "-", "-", "-", "-", "-", "-", "-", "-", "-", "-",
      "-", "-", "-", "-", "-", "-", "-", "-", "-", "-", "-", "-", "-">>

\* self.fname.clone().unwrap_or("Unkown".to_string()), as written.
FnameText(fname) ==
    IF fname.some THEN CharsOf(fname.val) ELSE <<"U", "n", "k", "o", "w", "n">>

\* self.desc.clone().unwrap_or("None".to_string()), as written.
DescText(desc) ==
    IF desc.some THEN CharsOf(desc.val) ELSE <<"N", "o", "n", "e">>

\* impl Display for WinDev.
Format(dev) ==
    Separator
    \o <<"\n", "D", "e", "v", " ", "N", "a", "m", "e", ":", " ">> \o FnameText(dev.fname)
    \o <<"\n", "D", "e", "v", " ", "D", "e", "s", "c", ":", " ">> \o DescText(dev.desc)
    \o <<"\n", "G", "U", "I", "D", ":", " ">> \o Dec(dev.guid)
    \o <<"\n", "G", "U", "I", "D", " ", "(", "h", "e", "x", ")", ":", " ">>
    \o LowerHex(dev.guid)
    \o <<"\n">> \o Separator

\* ------------------------------------------------------- property reading

\* buffer.iter().position(|&b| b == 0), zero-based; Len(buffer) when absent.
NullPos(buffer) ==
    IF \E i \in 1..Len(buffer) : buffer[i] = 0
    THEN (CHOOSE i \in 1..Len(buffer) :
              buffer[i] = 0 /\ \A j \in 1..(i - 1) : buffer[j] # 0) - 1
    ELSE Len(buffer)

Truncated_none(buffer) ==
    buffer

\* if let Some(null_pos) = position(..) { buffer.truncate(null_pos) }
Truncated(buffer) ==
    SubSeq(buffer, 1, NullPos(buffer))

\* safe_get of core::str::lossy: the byte at a one-based place, 0 past the end.
SafeGet(b, i) == IF i <= Len(b) THEN b[i] ELSE 0

IsCont(x) == x >= 128 /\ x <= 191

Utf8CharWidth(x) ==
    IF x < 128 THEN 1
    ELSE IF x >= 194 /\ x <= 223 THEN 2
    ELSE IF x >= 224 /\ x <= 239 THEN 3
    ELSE IF x >= 240 /\ x <= 244 THEN 4
    ELSE 0

Second3Ok(b0, b1) ==
    \/ b0 = 224 /\ b1 >= 160 /\ b1 <= 191
    \/ b0 >= 225 /\ b0 <= 236 /\ IsCont(b1)
    \/ b0 = 237 /\ b1 >= 128 /\ b1 <= 159
    \/ b0 >= 238 /\ b0 <= 239 /\ IsCont(b1)

Second4Ok(b0, b1) ==
    \/ b0 = 240 /\ b1 >= 144 /\ b1 <= 191
    \/ b0 >= 241 /\ b0 <= 243 /\ IsCont(b1)
    \/ b0 = 244 /\ b1 >= 128 /\ b1 <= 143

\* U+FFFD REPLACEMENT CHARACTER, as a one-element String.
Replacement == <<65533>>

\* One step of lossy decoding at one-based place i: the scalar value produced
\* (U+FFFD for a maximal invalid prefix) and the place of the next step.
DecodeStep(b, i) ==
    LET b0 == b[i]
        b1 == SafeGet(b, i + 1)
        b2 == SafeGet(b, i + 2)
        b3 == SafeGet(b, i + 3)
        w  == Utf8CharWidth(b0)
    IN  CASE w = 1 -> [cp |-> b0, next |-> i + 1]
          [] w = 2 ->
               IF IsCont(b1)
               THEN [cp |-> (b0 % 32) * 64 + (b1 % 64), next |-> i + 2]
               ELSE [cp |-> Replacement[1], next |-> i + 1]
          [] w = 3 ->
               IF ~Second3Ok(b0, b1) THEN [cp |-> Replacement[1], next |-> i + 1]
               ELSE IF ~IsCont(b2) THEN [cp |-> Replacement[1], next |-> i + 2]
               ELSE [cp |-> ((b0 % 16) * 64 + (b1 % 64)) * 64 + (b2 % 64),
                     next |-> i + 3]
          [] w = 4 ->
               IF ~Second4Ok(b0, b1) THEN [cp |-> Replacement[1], next |-> i + 1]
               ELSE IF ~IsCont(b2) THEN [cp |-> Replacement[1], next |-> i + 2]
               ELSE IF ~IsCont(b3) THEN [cp |-> Replacement[1], next |-> i + 3]
               ELSE [cp |-> (((b0 % 8) * 64 + (b1 % 64)) * 64 + (b2 % 64)) * 64
                              + (b3 % 64),
                     next |-> i + 4]
          [] OTHER -> [cp |-> Replacement[1], next |-> i + 1]

RECURSIVE DecodeFrom(_, _)
DecodeFrom(b, i) ==
    IF i > Len(b) THEN <<>>
    ELSE LET st == DecodeStep(b, i) IN <<st.cp>> \o DecodeFrom(b, st.next)

\* String::from_utf8_lossy(&buffer).to_string()
FromUtf8Lossy(b) == DecodeFrom(b, 1)

\* Bytes one scalar value takes in a String (UTF-8).
Utf8Len(cp) ==
    IF cp < 128 THEN 1 ELSE IF cp < 2048 THEN 2 ELSE IF cp < 65536 THEN 3 ELSE 4

\* String::len(): the length in bytes.
RECURSIVE StrLen(_)
StrLen(s) == IF s = <<>> THEN 0 ELSE Utf8Len(Head(s)) + StrLen(Tail(s))

\* s.chars().count()
CharCount(s) == Len(s)

get_fname_propagate(ok, buffer) ==
    IF ~ok THEN [err |-> TRUE, val |-> NoneOpt]
    ELSE Ok(Some(FromUtf8Lossy(Truncated(buffer))))

\* get_fname: ok is the outcome of SetupDiGetDeviceRegistryPropertyA for
\* SPDRP_FRIENDLYNAME, buffer what it left in the buffer.
get_fname(ok, buffer) ==
    IF ~ok THEN Ok(NoneOpt)
    ELSE Ok(Some(FromUtf8Lossy(Truncated(buffer))))

\* get_desc: the same for SPDRP_DEVICEDESC.
get_desc(ok, buffer) ==
    IF ~ok THEN Ok(NoneOpt)
    ELSE Ok(Some(FromUtf8Lossy(Truncated(buffer))))

\* ------------------------------------------------------------ error text

\* The operating system's message for a Win32 error code, one piece.
OsMessage(code) ==
    CASE code = ERROR_NO_MORE_ITEMS -> "No more data is available."
      [] code = 5 -> "Access is denied."
      [] code = 13 -> "The data is invalid."
      [] OTHER -> ""

\* "{}" of the HRESULT made from a Win32 error code: 0x8007 and the code.
HResultText(code) ==
    <<"0", "x">> \o UpperHex4(HRESULT_WIN32_HIGH) \o UpperHex4(code)

\* e.to_string() of an error of the windows crate.
ErrToString(e) ==
    IF OsMessage(e.code) = "" THEN HResultText(e.code)
    ELSE <<OsMessage(e.code)>> \o <<" ", "(">> \o HResultText(e.code) \o <<")">>

IsNoMoreItems_anyWin32(text) ==
    Contains(text, <<"0", "x", "8", "0", "0", "7">>)

\* e.to_string().contains("0x80070103")
IsNoMoreItems(text) ==
    Contains(text, <<"0", "x", "8", "0", "0", "7", "0", "1", "0", "3">>)

\* ------------------------------------------------------------------ GUID

RECURSIVE BigEndian(_)
BigEndian(bytes) ==
    IF bytes = <<>> THEN 0
    ELSE BigEndian(SubSeq(bytes, 1, Len(bytes) - 1)) * 256 + bytes[Len(bytes)]

\* GUID::to_u128 of a GUID whose data1, data2 and data3 are 0, so that the
\* value is that of the eight bytes of data4, big-endian.
to_u128(g) == BigEndian(g.data4)

\* Class GUIDs of the devices of a snapshot: values 0 and 255.
ClassGuids ==
    { [data1 |-> 0, data2 |-> 0, data3 |-> 0, data4 |-> <<0, 0, 0, 0, 0, 0, 0, b>>] :
          b \in {0, 255} }

\* A buffer of BufLen bytes: the given bytes, then zeros (vec![0; 256]).
Padded(bytes) == [i \in 1..BufLen |-> IF i <= Len(bytes) THEN bytes[i] ELSE 0]

\* What the registry holds for one property of a device: whether the query
\* succeeds and the bytes it leaves in the buffer.
FnameQueries ==
    { [ok |-> FALSE, buffer |-> Padded(<<>>)],
      [ok |-> TRUE, buffer |-> Padded(<<65>>)],
      [ok |-> TRUE, buffer |-> Padded(<<255, 65>>)] }

DescQueries ==
    { [ok |-> FALSE, buffer |-> Padded(<<>>)],
      [ok |-> TRUE, buffer |-> Padded(<<195, 169>>)] }

\* The devices a snapshot may hold.
Devices ==
    [ClassGuid : ClassGuids, fnameQ : FnameQueries, descQ : DescQueries]

NoDevice ==
    [ClassGuid |-> [data1 |-> 0, data2 |-> 0, data3 |-> 0,
                    data4 |-> <<0, 0, 0, 0, 0, 0, 0, 0>>],
     fnameQ |-> [ok |-> FALSE, buffer |-> Padded(<<>>)],
     descQ |-> [ok |-> FALSE, buffer |-> Padded(<<>>)]]

\* ------------------------------------------------------------------ state

VARIABLES
    pc,          \* the place of the run in main and is_root
    os,          \* std::env::consts::OS
    token,       \* is_root: the local token
    elevated,    \* is_root: the local elevated
    rootResult,  \* what is_root returned
    devInfoSet,  \* main: dev_info_set ("none", "valid", "invalid")
    nDevices,    \* the number of devices of the snapshot
    index,       \* main: index
    entry,       \* main: dev_info_data, the entry the last call filled in
    fname,       \* main: the friendly name read for the entry
    desc,        \* main: the description read for the entry
    stdout,      \* lines written to standard output
    stderr,      \* lines written to standard error
    exitCode,    \* <<>> while running, then <<status>>
    tokenOpen,   \* whether the operating system holds an open token handle
    acquired,    \* history: OpenProcessToken succeeded
    closeCalls,  \* history: number of CloseHandle calls
    osChecks,    \* history: number of times the OS test ran
    privChecks,  \* history: number of times is_root was entered
    enumCalls,   \* history: the indices passed to SetupDiEnumDeviceInfo
    returned,    \* history: the entries the successful calls returned
    enumError,   \* history: <<>> or the error the last call returned
    exitReason,  \* history: which condition ended the run
    queried,     \* history: "none", or how GetTokenInformation ended
    arg,         \* the input of a function applied on its own
    result       \* <<>> or its output

mainVars ==
    <<pc, os, token, elevated, rootResult, devInfoSet, nDevices, index, entry,
      fname, desc, stdout, stderr, exitCode, tokenOpen, acquired, closeCalls,
      osChecks, privChecks, enumCalls, returned, enumError, exitReason, queried>>

vars == <<mainVars, arg, result>>

INVALID_HANDLE_VALUE == "INVALID_HANDLE_VALUE"

\* The state after construction: nothing has run.
MainInit ==
    /\ pc = "check_os"
    /\ os \in {"windows", "linux"}
    /\ token = INVALID_HANDLE_VALUE
    /\ elevated = FALSE
    /\ rootResult = Ok(FALSE)
    /\ devInfoSet = "none"
    /\ nDevices = 0
    /\ index = 0
    /\ entry = NoDevice
    /\ fname = NoneOpt
    /\ desc = NoneOpt
    /\ stdout = <<>>
    /\ stderr = <<>>
    /\ exitCode = <<>>
    /\ tokenOpen = FALSE
    /\ acquired = FALSE
    /\ closeCalls = 0
    /\ osChecks = 0
    /\ privChecks = 0
    /\ enumCalls = <<>>
    /\ returned = <<>>
    /\ enumError = <<>>
    /\ exitReason = "none"
    /\ queried = "none"

Init == MainInit /\ arg = <<>> /\ result = <<>>

\* exit(status), or main returning: the process ends with the status.
Exit(status, reason) ==
    /\ pc' = "exited"
    /\ exitCode' = <<status>>
    /\ exitReason' = reason

\* main returning Err(e): the runtime writes the error to standard error and
\* the process ends with status 1.
ReturnErr(what, reason) ==
    /\ stderr' = Append(stderr, <<"Error: ", what>>)
    /\ Exit(1, reason)

\* if OS != "windows" { println!(..); exit(1) }
CheckOS ==
    /\ pc = "check_os"
    /\ osChecks' = osChecks + 1
    /\ IF os # "windows"
       THEN /\ stdout' = Append(stdout, <<"OS isn't windows!">>)
            /\ Exit(1, "wrong_os")
       ELSE /\ pc' = "open_token"
            /\ UNCHANGED <<stdout, exitCode, exitReason>>
    /\ UNCHANGED <<os, token, elevated, rootResult, devInfoSet, nDevices, index,
                   entry, fname, desc, stderr, tokenOpen, acquired, closeCalls,
                   privChecks, enumCalls, returned, enumError, queried, arg, result>>

\* is_root: token and elevated are initialised, OpenProcessToken is called.
OpenToken ==
    /\ pc = "open_token"
    /\ privChecks' = privChecks + 1
    /\ elevated' = FALSE
    /\ \E ok \in BOOLEAN :
         IF ok
         THEN /\ token' = "hToken"
              /\ tokenOpen' = TRUE
              /\ acquired' = TRUE
              /\ pc' = "get_token_info"
         ELSE /\ token' = INVALID_HANDLE_VALUE
              /\ UNCHANGED <<tokenOpen, acquired>>
              /\ pc' = "close_token"
    /\ UNCHANGED <<os, rootResult, devInfoSet, nDevices, index, entry, fname,
                   desc, stdout, stderr, exitCode, closeCalls, osChecks,
                   enumCalls, returned, enumError, exitReason, queried, arg, result>>

\* if GetTokenInformation(..).is_ok() { elevated = elevation.TokenIsElevated != 0; }
ElevatedAfterQuery(ok, flag, elev) ==
    IF ok THEN flag ELSE elev

\* is_root: GetTokenInformation; elevated is set only when the query succeeds.
GetTokenInfo ==
    /\ pc = "get_token_info"
    /\ \E ok \in BOOLEAN, TokenIsElevated \in BOOLEAN :
         /\ elevated' = ElevatedAfterQuery(ok, TokenIsElevated, elevated)
         /\ queried' = IF ok THEN "ok" ELSE "failed"
    /\ pc' = "close_token"
    /\ UNCHANGED <<os, token, rootResult, devInfoSet, nDevices, index, entry,
                   fname, desc, stdout, stderr, exitCode, tokenOpen, acquired,
                   closeCalls, osChecks, privChecks, enumCalls, returned,
                   enumError, exitReason, arg, result>>

ShouldClose_inverted(tok) ==
    tok = INVALID_HANDLE_VALUE

\* if token != INVALID_HANDLE_VALUE
ShouldClose(tok) ==
    tok # INVALID_HANDLE_VALUE

IsRootReturn_swallow(closeOk, elev) ==
    Ok(elev)

\* CloseHandle(token)?; Ok(elevated): the error of a failed release is
\* returned in place of the flag.
IsRootReturn(closeOk, elev) ==
    IF closeOk THEN Ok(elev) ELSE [err |-> TRUE, val |-> FALSE]

\* is_root: the handle is released when one was acquired, and is_root returns.
CloseToken ==
    /\ pc = "close_token"
    /\ IF ShouldClose(token)
       THEN \E closeOk \in BOOLEAN :
              /\ closeCalls' = closeCalls + 1
              /\ tokenOpen' = IF closeOk THEN FALSE ELSE tokenOpen
              /\ rootResult' = IsRootReturn(closeOk, elevated)
       ELSE /\ rootResult' = Ok(elevated)
            /\ UNCHANGED <<closeCalls, tokenOpen>>
    /\ pc' = "check_root"
    /\ UNCHANGED <<os, token, elevated, devInfoSet, nDevices, index, entry,
                   fname, desc, stdout, stderr, exitCode, acquired, osChecks,
                   privChecks, enumCalls, returned, enumError, exitReason, queried,
                   arg, result>>

RootCheckPasses_always(r) ==
    TRUE

\* the test of if !is_root()? { .. }
RootCheckPasses(r) ==
    r.val

\* if !is_root()? { println!(..); exit(1) }
CheckRoot ==
    /\ pc = "check_root"
    /\ IF rootResult.err
       THEN /\ ReturnErr("CloseHandle", "privilege_error")
            /\ UNCHANGED stdout
       ELSE IF ~RootCheckPasses(rootResult)
       THEN /\ stdout' = Append(stdout, <<"This program needs root priviledges">>)
            /\ Exit(1, "not_elevated")
            /\ UNCHANGED stderr
       ELSE /\ pc' = "get_class_devs"
            /\ UNCHANGED <<stdout, stderr, exitCode, exitReason>>
    /\ UNCHANGED <<os, token, elevated, rootResult, devInfoSet, nDevices, index,
                   entry, fname, desc, tokenOpen, acquired, closeCalls, osChecks,
                   privChecks, enumCalls, returned, enumError, queried, arg, result>>

\* let dev_info_set = unsafe { SetupDiGetClassDevsA(..) }?;
GetClassDevs ==
    /\ pc = "get_class_devs"
    /\ \/ /\ ReturnErr("SetupDiGetClassDevsA", "snapshot_error")
          /\ UNCHANGED <<devInfoSet, nDevices>>
       \/ /\ devInfoSet' = "invalid"
          /\ pc' = "check_invalid"
          /\ UNCHANGED <<nDevices, stderr, exitCode, exitReason>>
       \/ /\ devInfoSet' = "valid"
          /\ nDevices' \in 0..MaxDevices
          /\ pc' = "check_invalid"
          /\ UNCHANGED <<stderr, exitCode, exitReason>>
    /\ UNCHANGED <<os, token, elevated, rootResult, index, entry, fname, desc,
                   stdout, tokenOpen, acquired, closeCalls, osChecks, privChecks,
                   enumCalls, returned, enumError, queried, arg, result>>

\* if dev_info_set.is_invalid() { println!(..); exit(1) }; let mut index = 0;
CheckInvalid ==
    /\ pc = "check_invalid"
    /\ IF devInfoSet = "invalid"
       THEN /\ stdout' = Append(stdout, <<"Failed to get device list">>)
            /\ Exit(1, "invalid_snapshot")
            /\ UNCHANGED index
       ELSE /\ index' = 0
            /\ pc' = "enum"
            /\ UNCHANGED <<stdout, exitCode, exitReason>>
    /\ UNCHANGED <<os, token, elevated, rootResult, devInfoSet, nDevices, entry,
                   fname, desc, stderr, tokenOpen, acquired, closeCalls, osChecks,
                   privChecks, enumCalls, returned, enumError, queried, arg, result>>

NextIndex_same(i) == i

NextIndex_skip(i) == i + 2

\* index += 1;
NextIndex(i) == i + 1

\* match e.to_string().contains(..) { true => break Ok(()), false => exit(1) }
ExitStatusOnError(text) ==
    IF IsNoMoreItems(text) THEN 0 ELSE 1

\* The errors SetupDiEnumDeviceInfo may return at an index of a snapshot: the
\* sentinel past the last device, any other error anywhere.
EnumErrors(i) ==
    { [code |-> c] : c \in OtherErrorCodes \cup
                           (IF i >= nDevices THEN {ERROR_NO_MORE_ITEMS} ELSE {}) }

\* One call of SetupDiEnumDeviceInfo in the loop, and what follows it at once.
EnumDeviceInfo ==
    /\ pc = "enum"
    \* a snapshot of nDevices devices answers at most nDevices + 1 calls
    /\ Len(enumCalls) <= MaxDevices
    /\ enumCalls' = Append(enumCalls, index)
    /\ \/ /\ index < nDevices
          /\ \E d \in Devices :
               /\ entry' = d
               /\ returned' = Append(returned, d)
          /\ index' = NextIndex(index)
          /\ pc' = "get_fname"
          /\ UNCHANGED <<stdout, exitCode, exitReason, enumError>>
       \/ \E e \in EnumErrors(index) :
            /\ enumError' = <<e>>
            /\ IF ExitStatusOnError(ErrToString(e)) = 0
               THEN /\ Exit(0, "loop_break")
                    /\ UNCHANGED stdout
               ELSE /\ stdout' = Append(stdout, <<"Error occurred: ">> \o ErrToString(e))
                    /\ Exit(1, "enum_error")
            /\ UNCHANGED <<entry, returned, index>>
    /\ UNCHANGED <<os, token, elevated, rootResult, devInfoSet, nDevices, fname,
                   desc, stderr, tokenOpen, acquired, closeCalls, osChecks,
                   privChecks, queried, arg, result>>

\* fname: get_fname(dev_info_set, &dev_info_data)?,
GetFname ==
    /\ pc = "get_fname"
    /\ LET r == get_fname(entry.fnameQ.ok, entry.fnameQ.buffer)
       IN  IF r.err
           THEN /\ ReturnErr("get_fname", "property_error")
                /\ UNCHANGED fname
           ELSE /\ fname' = r.val
                /\ pc' = "get_desc"
                /\ UNCHANGED <<stderr, exitCode, exitReason>>
    /\ UNCHANGED <<os, token, elevated, rootResult, devInfoSet, nDevices, index,
                   entry, desc, stdout, tokenOpen, acquired, closeCalls, osChecks,
                   privChecks, enumCalls, returned, enumError, queried, arg, result>>

\* desc: get_desc(dev_info_set, &dev_info_data)?,
GetDesc ==
    /\ pc = "get_desc"
    /\ LET r == get_desc(entry.descQ.ok, entry.descQ.buffer)
       IN  IF r.err
           THEN /\ ReturnErr("get_desc", "property_error")
                /\ UNCHANGED desc
           ELSE /\ desc' = r.val
                /\ pc' = "print"
                /\ UNCHANGED <<stderr, exitCode, exitReason>>
    /\ UNCHANGED <<os, token, elevated, rootResult, devInfoSet, nDevices, index,
                   entry, fname, stdout, tokenOpen, acquired, closeCalls, osChecks,
                   privChecks, enumCalls, returned, enumError, queried, arg, result>>

\* let dev = WinDev { .., guid: dev_info_data.ClassGuid.to_u128() };
\* println!("{}", dev);
PrintDev ==
    /\ pc = "print"
    /\ stdout' = Append(stdout,
                        Format([fname |-> fname, desc |-> desc,
                                guid |-> to_u128(entry.ClassGuid)]))
    /\ pc' = "enum"
    /\ UNCHANGED <<os, token, elevated, rootResult, devInfoSet, nDevices, index,
                   entry, fname, desc, stderr, exitCode, tokenOpen, acquired,
                   closeCalls, osChecks, privChecks, enumCalls, returned,
                   enumError, exitReason, queried, arg, result>>

Next ==
    \/ CheckOS
    \/ OpenToken
    \/ GetTokenInfo
    \/ CloseToken
    \/ CheckRoot
    \/ GetClassDevs
    \/ CheckInvalid
    \/ EnumDeviceInfo
    \/ GetFname
    \/ GetDesc
    \/ PrintDev

\* One run of the program.
Spec == Init /\ [][Next]_vars

\* A run that is not suspended for ever: every call returns.
FairSpec == Spec /\ WF_vars(Next)

\* ------------------------------------------- the functions on their own

\* The program has not started; only arg and result are in use.
Idle == MainInit /\ os = "windows"

\* Every outcome of one property query: either kind, failing or succeeding,
\* with any bytes in the buffer.
PropInit ==
    /\ Idle
    /\ arg \in [kind : {"fname", "desc"}, ok : BOOLEAN,
                buffer : [1..BufLen -> BufferBytes]]
    /\ result = <<>>

ReadFname ==
    /\ arg.kind = "fname"
    /\ result = <<>>
    /\ result' = <<get_fname(arg.ok, arg.buffer)>>
    /\ UNCHANGED <<mainVars, arg>>

ReadDesc ==
    /\ arg.kind = "desc"
    /\ result = <<>>
    /\ result' = <<get_desc(arg.ok, arg.buffer)>>
    /\ UNCHANGED <<mainVars, arg>>

PropNext == ReadFname \/ ReadDesc

\* get_fname and get_desc applied to one query outcome.
PropSpec == PropInit /\ [][PropNext]_vars

\* Strings a property may hold: empty, "A", "AA", one replacement marker.
FmtStrings == {<<>>, <<65>>, <<65, 65>>, <<65533>>}

FmtOptions == {NoneOpt} \cup {Some(s) : s \in FmtStrings}

\* Class identifiers: 0, one digit, and values whose decimal and hexadecimal
\* digits differ.
FmtGuids == {0, 1, 10, 255, 4096, 48879, 305419896}

FmtInit ==
    /\ Idle
    /\ arg \in [fname : FmtOptions, desc : FmtOptions, guid : FmtGuids]
    /\ result = <<>>

\* format!("{}", dev)
Display ==
    /\ result = <<>>
    /\ result' = <<Format(arg)>>
    /\ UNCHANGED <<mainVars, arg>>

FmtNext == Display

\* Display for WinDev applied to one record.
FmtSpec == FmtInit /\ [][FmtNext]_vars

\* ------------------------------------------------------------ properties

\* The blocks printed for devices: the lines of standard output that open
\* with the separator (no diagnostic line does).
DeviceBlocks == SelectSeq(stdout, LAMBDA line : line # <<>> /\ line[1] = "-")

\* The block main prints for an entry the operating system returned.
BlockOf(d) ==
    Format([fname |-> get_fname(d.fnameQ.ok, d.fnameQ.buffer).val,
            desc |-> get_desc(d.descQ.ok, d.descQ.buffer).val,
            guid |-> to_u128(d.ClassGuid)])

\* is_root has returned to main.
IsRootReturned ==
    pc \notin {"check_os", "open_token", "get_token_info", "close_token"}

\* main is at or past the call that opens the snapshot.
SnapshotStage ==
    pc \in {"get_class_devs", "check_invalid", "enum", "get_fname", "get_desc", "print"}

\* The last call of SetupDiEnumDeviceInfo returned the "no more items" error.
LoopEndedBySentinel ==
    enumError # <<>> /\ enumError[1].code = ERROR_NO_MORE_ITEMS

\* C1: the exit status is 0 exactly when the loop ended because
\* SetupDiEnumDeviceInfo returned the "no more items" error; every other way
\* of ending the run gives exit status 1.
C1_ExitStatus ==
    pc = "exited" =>
        /\ exitCode \in {<<0>>, <<1>>}
        /\ (exitCode = <<0>>) <=> LoopEndedBySentinel
        /\ exitReason \in {"wrong_os", "not_elevated", "privilege_error",
                           "snapshot_error", "invalid_snapshot", "enum_error"}
             => exitCode = <<1>>

\* A run that printed a device and then ended with status 0.
C1_Witness ==
    /\ pc = "exited"
    /\ exitCode = <<0>>
    /\ LoopEndedBySentinel
    /\ Len(DeviceBlocks) >= 1

\* C2: the OS test runs once, then is_root once, then the snapshot is opened,
\* then the loop runs; the snapshot is opened only after both checks passed,
\* and a run in which a check fails opens no snapshot, enumerates no entry
\* and prints no device block.
C2_Order ==
    /\ osChecks <= 1
    /\ privChecks <= 1
    /\ privChecks = 1 => (osChecks = 1 /\ os = "windows")
    /\ pc # "check_os" => osChecks = 1
    /\ IsRootReturned /\ os = "windows" => privChecks = 1
    /\ (SnapshotStage \/ devInfoSet # "none" \/ enumCalls # <<>> \/ DeviceBlocks # <<>>)
         => /\ osChecks = 1
            /\ privChecks = 1
            /\ os = "windows"
            /\ rootResult = Ok(TRUE)
            /\ queried = "ok"
    /\ enumCalls # <<>> => devInfoSet = "valid"
    /\ exitReason \in {"wrong_os", "not_elevated", "privilege_error"}
         => /\ devInfoSet = "none"
            /\ enumCalls = <<>>
            /\ returned = <<>>
            /\ DeviceBlocks = <<>>

\* The run is in the loop with the snapshot open and a device printed.
C2_Witness ==
    /\ pc = "enum"
    /\ devInfoSet = "valid"
    /\ osChecks = 1
    /\ privChecks = 1
    /\ Len(DeviceBlocks) >= 1

\* C3: the run ends (by the sentinel or by a fatal error), and the indices
\* passed to SetupDiEnumDeviceInfo start at 0 and strictly increase from one
\* call to the next.
C3_Terminates ==
    /\ <>(pc = "exited")
    /\ [](/\ (enumCalls # <<>> => enumCalls[1] = 0)
          /\ \A k \in 1..(Len(enumCalls) - 1) : enumCalls[k] < enumCalls[k + 1])

\* The run ended after as many calls as the snapshot allows.
C3_Witness ==
    /\ pc = "exited"
    /\ Len(enumCalls) = MaxDevices + 1
    /\ Len(returned) = MaxDevices

\* C4: a failing property query gives None and never an error: the run does
\* not end because of it, the block of the device is printed with the
\* placeholder that Display writes for an absent value, and the loop goes on
\* with the next index.
C4_QueryFailureAbsorbed ==
    /\ exitReason # "property_error"
    /\ (pc = "get_desc" /\ ~entry.fnameQ.ok) => (fname = NoneOpt /\ exitCode = <<>>)
    /\ (pc = "print" /\ ~entry.fnameQ.ok) => (fname = NoneOpt /\ exitCode = <<>>)
    /\ (pc = "print" /\ ~entry.descQ.ok) => (desc = NoneOpt /\ exitCode = <<>>)
    /\ Len(DeviceBlocks) <= Len(returned)
    /\ \A k \in 1..Len(DeviceBlocks) :
         LET d == returned[k] IN
           /\ ~d.fnameQ.ok =>
                Contains(DeviceBlocks[k],
                         <<"N", "a", "m", "e", ":", " ">> \o FnameText(NoneOpt) \o <<"\n">>)
           /\ ~d.descQ.ok =>
                Contains(DeviceBlocks[k],
                         <<"D", "e", "s", "c", ":", " ">> \o DescText(NoneOpt) \o <<"\n">>)
    /\ (pc = "enum" =>
          /\ Len(DeviceBlocks) = Len(returned)
          /\ index = Len(returned)
          /\ exitCode = <<>>)

\* Both queries of the last device failed, its block is printed and the loop
\* is about to ask for the next index.
C4_Witness ==
    /\ pc = "enum"
    /\ returned # <<>>
    /\ ~returned[Len(returned)].fnameQ.ok
    /\ ~returned[Len(returned)].descQ.ok
    /\ Len(DeviceBlocks) = Len(returned)
    /\ index = Len(returned)

\* The lines of a text: the pieces between the "\n" pieces.
RECURSIVE Lines(_)
Lines(text) ==
    IF \E i \in 1..Len(text) : text[i] = "\n"
    THEN LET i == CHOOSE i \in 1..Len(text) :
                      text[i] = "\n" /\ \A j \in 1..(i - 1) : text[j] # "\n"
         IN  <<SubSeq(text, 1, i - 1)>> \o Lines(SubSeq(text, i + 1, Len(text)))
    ELSE <<text>>

EndsWith(text, suffix) ==
    /\ Len(suffix) <= Len(text)
    /\ SubSeq(text, Len(text) - Len(suffix) + 1, Len(text)) = suffix

\* C5: the block is a separator line, a line that ends with the friendly
\* name or with "Unknown" when it is absent, a line that ends with the
\* description or with "None" when it is absent, a line that ends with the
\* identifier in decimal, a line that ends with it in lower-case hexadecimal
\* after 0x, and a separator line; for the record without name and
\* description and with identifier 0 these are "Unknown", "None", "0", "0x0".
C5_FormatAsSpecified ==
    result # <<>> =>
        LET out == result[1]
            ln == Lines(out)
        IN  /\ Len(ln) = 6
            /\ ln[1] = Separator
            /\ ln[6] = Separator
            /\ EndsWith(ln[2], IF arg.fname.some THEN CharsOf(arg.fname.val)
                               ELSE <<" ", "U", "n", "k", "n", "o", "w", "n">>)
            /\ EndsWith(ln[3], IF arg.desc.some THEN CharsOf(arg.desc.val)
                               ELSE <<" ", "N", "o", "n", "e">>)
            /\ EndsWith(ln[4], <<" ">> \o Dec(arg.guid))
            /\ EndsWith(ln[5], <<" ", "0", "x">> \o LowerHexBare(arg.guid))
            /\ (arg = [fname |-> NoneOpt, desc |-> NoneOpt, guid |-> 0] =>
                  /\ Contains(out, <<"U", "n", "k", "n", "o", "w", "n">>)
                  /\ Contains(out, <<"N", "o", "n", "e">>)
                  /\ EndsWith(ln[4], <<" ", "0">>)
                  /\ EndsWith(ln[5], <<" ", "0", "x", "0">>))

\* C6, as stated: once is_root has returned it has returned a boolean, not an
\* error, whatever the three calls did, and the boolean is false when the
\* token was not acquired or the query failed.
C6_NeverFails ==
    IsRootReturned /\ privChecks = 1 =>
        /\ ~rootResult.err
        /\ (~acquired \/ queried = "failed") => rootResult.val = FALSE

\* C6, amended: is_root returns an error exactly when the release of an
\* acquired handle fails; in every other case it returns a boolean, which is
\* false when the token was not acquired or the query failed, and which is
\* the elevation flag when the query succeeded.
C6_FailsOnlyOnRelease ==
    IsRootReturned /\ privChecks = 1 =>
        /\ rootResult.err <=> (acquired /\ tokenOpen)
        /\ ~rootResult.err =>
             /\ (~acquired \/ queried = "failed") => rootResult.val = FALSE
             /\ rootResult.val => (acquired /\ queried = "ok" /\ elevated)
             /\ rootResult.val = elevated
        /\ ~acquired => ~rootResult.err

\* The release of an acquired handle failed after a failed query, and the run
\* ended on the error is_root returned.
C6_Witness ==
    /\ pc = "exited"
    /\ exitReason = "privilege_error"
    /\ acquired
    /\ queried = "failed"
    /\ rootResult.err

\* C7: CloseHandle is called once for a handle that was acquired, before
\* is_root returns and on each of its paths, never for a handle that was not
\* acquired, and no token handle is open when the snapshot is opened.
C7_TokenReleased ==
    /\ closeCalls <= 1
    /\ ~acquired => (closeCalls = 0 /\ ~tokenOpen /\ token = INVALID_HANDLE_VALUE)
    /\ IsRootReturned /\ privChecks = 1 => closeCalls = (IF acquired THEN 1 ELSE 0)
    /\ (tokenOpen /\ IsRootReturned) => (closeCalls = 1 /\ rootResult.err)
    /\ (SnapshotStage \/ devInfoSet # "none") => (~tokenOpen /\ acquired /\ closeCalls = 1)

\* is_root has returned after a failed query, with the handle released once.
C7_Witness ==
    /\ pc = "check_root"
    /\ acquired
    /\ queried = "failed"
    /\ closeCalls = 1
    /\ ~tokenOpen

\* A line of standard output that is one of the diagnostics of main.
IsDiagnostic(line) ==
    /\ line # <<>>
    /\ line[1] \in {"OS isn't windows!", "This program needs root priviledges",
                    "Failed to get device list", "Error occurred: "}

\* C8: a run that ends with status 1 has written a diagnostic line to
\* standard output as the last thing it wrote, and nothing to standard error.
C8_DiagnosticOnStdout ==
    (pc = "exited" /\ exitCode = <<1>>) =>
        /\ stdout # <<>>
        /\ IsDiagnostic(stdout[Len(stdout)])
        /\ stderr = <<>>

\* The String a successful query returned.
ReturnedString == result[1].val.val

HasNull(buffer) == \E i \in 1..Len(buffer) : buffer[i] = 0

\* C9, as stated, with the length of the String as String::len gives it: a
\* successful query whose buffer has its first null byte at place p returns a
\* String of length at most p without a null.
C9_ByteLengthAtMostP ==
    (result # <<>> /\ arg.ok /\ HasNull(arg.buffer)) =>
        /\ ~result[1].err
        /\ result[1].val.some
        /\ StrLen(ReturnedString) <= NullPos(arg.buffer)
        /\ \A i \in 1..Len(ReturnedString) : ReturnedString[i] # 0

\* C9, amended: the String has at most p characters and no null; it is the
\* lossy decoding of the p bytes before the null, so its length in bytes is
\* at most 3 * p.
C9_CharCountAtMostP ==
    (result # <<>> /\ arg.ok /\ HasNull(arg.buffer)) =>
        /\ ~result[1].err
        /\ result[1].val.some
        /\ CharCount(ReturnedString) <= NullPos(arg.buffer)
        /\ StrLen(ReturnedString) <= 3 * NullPos(arg.buffer)
        /\ \A i \in 1..Len(ReturnedString) : ReturnedString[i] # 0
        /\ ReturnedString = FromUtf8Lossy(SubSeq(arg.buffer, 1, NullPos(arg.buffer)))

\* A buffer whose bytes before the null are not valid text: the String holds
\* a replacement marker.
C9_Witness ==
    /\ result # <<>>
    /\ arg.ok
    /\ HasNull(arg.buffer)
    /\ NullPos(arg.buffer) >= 2
    /\ \E i \in 1..Len(ReturnedString) : ReturnedString[i] = Replacement[1]

\* C10: the k-th call of SetupDiEnumDeviceInfo passes index k - 1; the blocks
\* on standard output are those of the entries the successful calls
\* returned, in that order, one block for each before the next call; nothing
\* is printed for a device once a call has returned an error.
C10_BlocksFollowEntries ==
    /\ \A k \in 1..Len(enumCalls) : enumCalls[k] = k - 1
    /\ Len(returned) = Len(enumCalls) - (IF enumError # <<>> THEN 1 ELSE 0)
    /\ Len(DeviceBlocks) <= Len(returned)
    /\ Len(returned) <= Len(DeviceBlocks) + 1
    /\ pc \in {"enum", "exited"} => Len(DeviceBlocks) = Len(returned)
    /\ \A k \in 1..Len(DeviceBlocks) :
         /\ stdout[k] = DeviceBlocks[k]
         /\ DeviceBlocks[k] = BlockOf(returned[k])
    /\ Len(stdout) <= Len(DeviceBlocks) + 1
    /\ enumError # <<>> => pc = "exited"

\* Two devices were printed and the run ended on the sentinel.
C10_Witness ==
    /\ pc = "exited"
    /\ exitCode = <<0>>
    /\ Len(DeviceBlocks) = 2
    /\ enumCalls = <<0, 1, 2>>

====
